---- MODULE Spec2Model ----
(***************************************************************************)
(* Model of notebooks/1_Preprocessing.ipynb: the two-pass batch driver     *)
(* (extract_region_labels_from_images, extract_vocab_from_region_labels),  *)
(* the region selector find_target_region and the encoder extract_vocab.   *)
(*                                                                         *)
(* Representation.  skimage (threshold_otsu, closing, label, regionprops)  *)
(* is an external library: an image is given by what those calls yield on  *)
(* it -- whether threshold_otsu raises, np.max, shape[0] and the list of   *)
(* region properties of its label map.  Real-valued quantities are scaled  *)
(* to integers: eccentricity and extent in hundredths (0.98 is 98), the    *)
(* centroid in whole pixels, intensities in whole units.  Euclidean        *)
(* distances are compared through their squares.  Arrays are 0-based       *)
(* functions as in the code.                                               *)
(***************************************************************************)
EXTENDS Integers, Sequences, FiniteSets, TLC

VARIABLES images, failed_indexes, region_labels, vocab_matrix, region, i, pc,
          stdout, files, run, prev

vars == <<images, failed_indexes, region_labels, vocab_matrix, region, i, pc,
          stdout, files, run, prev>>

\* ---------------------------------------------------------------- bounds
MaxN == 3
MaxRegions == 3
MaxRuns == 2

\* ------------------------------------------------- tunable params (code)
WIDTH_DELTA_THRESHOLD == 25
HEIGHT_DELTA_THRESHOLD == 15
AREA_THRESHOLD == 30
ECCENTRICITY_THRESHOLD == 98

\* ---------------------------------------------------------------- inputs
Centroids == {<<10, 10>>, <<10, 34>>, <<10, 35>>, <<24, 10>>, <<25, 10>>}
Means == {3, 4}
Heights == {40}

MkRegion(a, e, m, c) ==
    [area |-> a, eccentricity |-> e, equivalent_diameter |-> 6, extent |-> 50,
     major_axis_length |-> 9, minor_axis_length |-> 7, perimeter |-> 20,
     max_intensity |-> m + 1, mean_intensity |-> m, min_intensity |-> m - 2,
     centroid |-> c]

GoodRegions == {MkRegion(AREA_THRESHOLD, ECCENTRICITY_THRESHOLD - 1, m, c) :
                    m \in Means, c \in Centroids}
BadRegions == {MkRegion(AREA_THRESHOLD - 1, ECCENTRICITY_THRESHOLD - 1, 4, <<10, 10>>),
               MkRegion(AREA_THRESHOLD, ECCENTRICITY_THRESHOLD, 4, <<10, 10>>)}
RegionPool == GoodRegions \cup BadRegions

SeqsUpTo(S, n) == UNION {[1..k -> S] : k \in 0..n}

MkImage(ok, rs, h) == [otsu_ok |-> ok, max |-> 5, height |-> h, regions |-> rs]

ConstImage == MkImage(FALSE, <<>>, 40)
SelImages == {ConstImage} \cup
             {MkImage(TRUE, rs, h) : rs \in SeqsUpTo(RegionPool, MaxRegions), h \in Heights}
BatchImages == {ConstImage,
                MkImage(TRUE, <<MkRegion(29, 97, 4, <<10, 10>>)>>, 40),
                MkImage(TRUE, <<MkRegion(30, 97, 4, <<10, 10>>)>>, 40),
                MkImage(TRUE, <<MkRegion(30, 97, 3, <<10, 10>>),
                                MkRegion(30, 97, 4, <<10, 34>>)>>, 40)}

\* What regionprops can find in a label-map slot that np.empty allocated and
\* nothing ever filled: no region (zero-filled pages) or whatever the stale
\* memory holds.
UninitRegionLists == {<<>>, <<MkRegion(30, 97, 5, <<24, 10>>)>>}

\* a slot of region_labels: never written (np.empty), or holding a label map
Uninit == [filled |-> FALSE, regions |-> <<>>]
Filled(rs) == [filled |-> TRUE, regions |-> rs]
\* the local variable region before its first assignment
Unbound == [bound |-> FALSE]
\* a file of OUTPUT_DIR: not there, or holding an array
Absent == [exists |-> FALSE, data |-> <<>>]
File(a) == [exists |-> TRUE, data |-> a]
NoArray == <<>>

\* ------------------------------------------------------------ pure parts
Abs(x) == IF x < 0 THEN -x ELSE x

\* Python's sorted(s, key=...): ascending by key, stable.
Sorted(s, keys) ==
    LET n == Len(s)
        rank(k) == 1 + Cardinality({j \in 1..n :
                        keys[j] < keys[k] \/ (keys[j] = keys[k] /\ j < k)})
    IN [p \in 1..n |-> s[CHOOSE k \in 1..n : rank(k) = p]]

Take2(s) == IF Len(s) <= 2 THEN s ELSE SubSeq(s, 1, 2)

RECURSIVE FilterSeq(_, _)
FilterSeq(s, keep) ==
    IF s = <<>> THEN <<>>
    ELSE (IF Head(s) \in keep THEN <<Head(s)>> ELSE <<>>) \o FilterSeq(Tail(s), keep)

SurvivesStrictArea(x) ==
    x.area > AREA_THRESHOLD /\ x.eccentricity < ECCENTRICITY_THRESHOLD
Survives(x) ==
    x.area >= AREA_THRESHOLD /\ x.eccentricity < ECCENTRICITY_THRESHOLD

two_regions_close_swapped(two_regions) ==
    IF Len(two_regions) # 2 THEN FALSE
    ELSE LET width_delta == Abs(two_regions[1].centroid[2] - two_regions[2].centroid[2])
             height_delta == Abs(two_regions[1].centroid[1] - two_regions[2].centroid[1])
         IN width_delta < HEIGHT_DELTA_THRESHOLD /\ height_delta < WIDTH_DELTA_THRESHOLD
two_regions_close(two_regions) ==
    IF Len(two_regions) # 2 THEN FALSE
    ELSE LET width_delta == Abs(two_regions[1].centroid[2] - two_regions[2].centroid[2])
             height_delta == Abs(two_regions[1].centroid[1] - two_regions[2].centroid[1])
         IN width_delta < WIDTH_DELTA_THRESHOLD /\ height_delta < HEIGHT_DELTA_THRESHOLD

\* Square of np.linalg.norm(bottom_left - x.centroid), bottom_left = (shape[0], 0).
DistSq(height, c) == (height - c[1]) * (height - c[1]) + (0 - c[2]) * (0 - c[2])

bottom_leftmost_last(two, height) ==
    LET s == Sorted(two, [k \in 1..Len(two) |-> DistSq(height, two[k].centroid)])
    IN s[Len(s)]
bottom_leftmost(two, height) ==
    Sorted(two, [k \in 1..Len(two) |-> DistSq(height, two[k].centroid)])[1]

rightmost(two) ==
    Sorted(two, [k \in 1..Len(two) |-> -two[k].centroid[2]])[1]

\* find_target_region(region_label, image): regions is regionprops(region_label, image).
find_target_region(regions, height) ==
    LET filtered == FilterSeq(regions, {x \in {regions[k] : k \in 1..Len(regions)} : Survives(x)})
    IN IF Len(filtered) = 0
       THEN [ok |-> FALSE,
             args |-> <<"bad threshold",
                        [k \in 1..Len(regions) |-> <<regions[k].area, regions[k].eccentricity>>]>>]
       ELSE LET sorted_mean_intensity ==
                    Take2(Sorted(filtered, [k \in 1..Len(filtered) |-> -filtered[k].mean_intensity]))
            IN [ok |-> TRUE,
                region |-> IF two_regions_close(sorted_mean_intensity)
                           THEN rightmost(sorted_mean_intensity)
                           ELSE bottom_leftmost(sorted_mean_intensity, height)]

fields_swapped ==
    <<"area", "eccentricity", "equivalent_diameter", "extent", "minor_axis_length",
      "major_axis_length", "perimeter", "max_intensity", "mean_intensity", "min_intensity">>
fields ==
    <<"area", "eccentricity", "equivalent_diameter", "extent", "major_axis_length",
      "minor_axis_length", "perimeter", "max_intensity", "mean_intensity", "min_intensity">>

extract_vocab(r) == [k \in 1..10 |-> r[fields[k]]]

ZeroColumn == [k \in 1..10 |-> 0]

\* extract_region_label(image): the label map (given by its region list), or the raise.
extract_region_label(image) ==
    IF image.otsu_ok
    THEN [ok |-> TRUE, region_label |-> image.regions]
    ELSE [ok |-> FALSE, args |-> <<"invalid image for otsu thresholding", image.max>>]

AppendFailureFront(list, rec) == <<rec>> \o list
AppendFailure(list, rec) == Append(list, rec)

WriteColumnAll(m, col, v) == [j \in DOMAIN m |-> v]
WriteColumn(m, col, v) == [m EXCEPT ![col] = v]

N == Len(images)
Indices(n) == 0 .. (n - 1)
Image(k) == images[k + 1]

\* ------------------------------------------------------------------ Init
InitRest ==
    /\ failed_indexes = <<>>
    /\ region_labels = NoArray
    /\ vocab_matrix = NoArray
    /\ region = Unbound
    /\ i = 0
    /\ pc = "start"
    /\ stdout = <<>>
    /\ files = [vocab_matrix |-> Absent, failed_indexes |-> Absent]
    /\ run = 1
    /\ prev = [vocab_matrix |-> NoArray, failed_indexes |-> <<>>]

Init ==
    /\ images \in SeqsUpTo(BatchImages, MaxN)
    /\ InitRest

SelInit ==
    /\ images \in [1..1 -> SelImages]
    /\ InitRest

\* --------------------------------------------------------------- actions
\* region_labels = np.empty(images.shape)
ExtractRegionLabelsStart ==
    /\ pc = "start"
    /\ region_labels' = [j \in Indices(N) |-> Uninit]
    /\ i' = 0
    /\ pc' = "labels"
    /\ UNCHANGED <<images, failed_indexes, vocab_matrix, region, stdout, files, run, prev>>

\* one iteration of the loop of extract_region_labels_from_images
ExtractRegionLabelsIterBreak ==
    /\ pc = "labels"
    /\ i < N
    /\ LET res == extract_region_label(Image(i))
       IN IF res.ok
          THEN /\ region_labels' = [region_labels EXCEPT ![i] = Filled(res.region_label)]
               /\ i' = i + 1
               /\ UNCHANGED <<failed_indexes, stdout>>
          ELSE /\ stdout' = Append(stdout, <<i, res.args>>)
               /\ failed_indexes' = AppendFailure(failed_indexes, <<i, "extract_region_label">>)
               /\ i' = N
               /\ UNCHANGED region_labels
    /\ UNCHANGED <<images, vocab_matrix, region, pc, files, run, prev>>
ExtractRegionLabelsIter ==
    /\ pc = "labels"
    /\ i < N
    /\ LET res == extract_region_label(Image(i))
       IN IF res.ok
          THEN /\ region_labels' = [region_labels EXCEPT ![i] = Filled(res.region_label)]
               /\ UNCHANGED <<failed_indexes, stdout>>
          ELSE /\ stdout' = Append(stdout, <<i, res.args>>)
               /\ failed_indexes' = AppendFailure(failed_indexes, <<i, "extract_region_label">>)
               /\ UNCHANGED region_labels
    /\ i' = i + 1
    /\ UNCHANGED <<images, vocab_matrix, region, pc, files, run, prev>>

\* return region_labels; then vocab_matrix = np.zeros((10, len(images)))
ExtractVocabStart ==
    /\ pc = "labels"
    /\ i = N
    /\ vocab_matrix' = [j \in Indices(N) |-> ZeroColumn]
    /\ i' = 0
    /\ pc' = "vocab"
    /\ UNCHANGED <<images, failed_indexes, region_labels, region, stdout, files, run, prev>>

\* one iteration of the loop of extract_vocab_from_region_labels
ExtractVocabIter ==
    /\ pc = "vocab"
    /\ i < N
    /\ \E lab \in (IF region_labels[i].filled THEN {region_labels[i].regions} ELSE UninitRegionLists) :
         \E res \in {find_target_region(lab, Image(i).height)} :
            IF res.ok
            THEN /\ region' = res.region
                 /\ vocab_matrix' = WriteColumn(vocab_matrix, i, extract_vocab(res.region))
                 /\ UNCHANGED <<failed_indexes, stdout>>
            ELSE /\ stdout' = Append(stdout, <<i, res.args>>)
                 /\ failed_indexes' = AppendFailure(failed_indexes, <<i, "find_target_region">>)
                 /\ UNCHANGED <<region, vocab_matrix>>
    /\ i' = i + 1
    /\ UNCHANGED <<images, region_labels, pc, files, run, prev>>

\* return vocab_matrix
ExtractVocabReturn ==
    /\ pc = "vocab"
    /\ i = N
    /\ region' = Unbound
    /\ pc' = "save"
    /\ UNCHANGED <<images, failed_indexes, region_labels, vocab_matrix, i, stdout, files, run, prev>>

\* np.save of vocab_matrix, and of column 0 of failed_indexes when it is non-empty
Save ==
    /\ pc = "save"
    /\ files' = [vocab_matrix |-> File(vocab_matrix),
                 failed_indexes |-> IF Len(failed_indexes) > 0
                                    THEN File([k \in 1..Len(failed_indexes) |-> failed_indexes[k][1]])
                                    ELSE files.failed_indexes]
    /\ pc' = "done"
    /\ UNCHANGED <<images, failed_indexes, region_labels, vocab_matrix, region, i, stdout, run, prev>>

\* the notebook is run again in a fresh kernel on the same input file
Rerun ==
    /\ pc = "done"
    /\ run < MaxRuns
    /\ run' = run + 1
    /\ prev' = [vocab_matrix |-> vocab_matrix, failed_indexes |-> failed_indexes]
    /\ failed_indexes' = <<>>
    /\ region_labels' = NoArray
    /\ vocab_matrix' = NoArray
    /\ region' = Unbound
    /\ i' = 0
    /\ pc' = "start"
    /\ stdout' = <<>>
    /\ UNCHANGED <<images, files>>

Next ==
    \/ ExtractRegionLabelsStart
    \/ ExtractRegionLabelsIter
    \/ ExtractVocabStart
    \/ ExtractVocabIter
    \/ ExtractVocabReturn
    \/ Save
    \/ Rerun

Spec == Init /\ [][Next]_vars
SelSpec == SelInit /\ [][Next]_vars
\* the interpreter runs the cells to the end: a step that can be taken is taken
FairSpec == Init /\ [][Next]_vars /\ WF_vars(Next)

\* ------------------------------------------------- observations of a run
Tag1 == "extract_region_label"
Tag2 == "find_target_region"

RecordCount(j) == Cardinality({k \in 1..Len(failed_indexes) : failed_indexes[k][1] = j})
HasRecord(j, tag) == \E k \in 1..Len(failed_indexes) : failed_indexes[k] = <<j, tag>>
Written(j) == vocab_matrix[j] # ZeroColumn
HasCandidate(rs) ==
    \E k \in 1..Len(rs) : rs[k].area >= 30 /\ rs[k].eccentricity < 98
StrictlyIncreasing(s) == \A a, b \in 1..Len(s) : a < b => s[a] < s[b]
IndexColumn(list) == [k \in 1..Len(list) |-> list[k][1]]
IsPrefix(s, t) == Len(s) <= Len(t) /\ \A k \in 1..Len(s) : s[k] = t[k]

\* the image the second pass has just handled, when its thresholding succeeded
JustSelected == pc = "vocab" /\ i >= 1 /\ region_labels[i - 1].filled
Last == i - 1
Raw == Image(Last).regions
SurvivorIdx == {k \in 1..Len(Raw) : Raw[k].area >= 30 /\ Raw[k].eccentricity < 98}
Close(a, b) ==
    /\ Abs(Raw[a].centroid[2] - Raw[b].centroid[2]) < 25
    /\ Abs(Raw[a].centroid[1] - Raw[b].centroid[1]) < 15
\* a and b are the two brightest survivors, unambiguously
TopTwo(a, b) ==
    /\ a \in SurvivorIdx /\ b \in SurvivorIdx /\ a # b
    /\ \A k \in SurvivorIdx \ {a, b} :
          Raw[k].mean_intensity < Raw[a].mean_intensity /\ Raw[k].mean_intensity < Raw[b].mean_intensity
CornerDistSq(r) ==
    (Image(Last).height - r.centroid[1]) * (Image(Last).height - r.centroid[1])
        + r.centroid[2] * r.centroid[2]

\* ---------------------------------------------------------------- claims

\* C1: at the end of a batch run every image index either has its column
\* written and no failure record, or has a zero column and exactly one record.
C1_OneOutcomePerImage ==
    pc = "done" =>
        \A j \in Indices(N) :
            \/ Written(j) /\ RecordCount(j) = 0
            \/ ~Written(j) /\ RecordCount(j) = 1

\* C2: at the end of a batch run the indices of the failure list, and of the
\* saved failed_indexes array, are strictly increasing (input order).
C2_FailuresInInputOrder ==
    pc = "done" =>
        /\ StrictlyIncreasing(IndexColumn(failed_indexes))
        /\ Len(failed_indexes) > 0 =>
              files.failed_indexes.exists /\ StrictlyIncreasing(files.failed_indexes.data)

\* C3: a per-image failure never aborts the batch: the run terminates, and at
\* its end both passes have visited every index, the matrix has N columns and
\* the column of every image that thresholds and selects successfully is written.
C3_Completed ==
    pc = "done" =>
        /\ DOMAIN vocab_matrix = Indices(N)
        /\ \A j \in Indices(N) :
              /\ region_labels[j].filled \/ HasRecord(j, Tag1)
              /\ Written(j) \/ HasRecord(j, Tag2)
              /\ (Image(j).otsu_ok /\ HasCandidate(Image(j).regions)) => Written(j)
C3_NeverAborts == [](C3_Completed) /\ <>(pc = "done")

C3_Witness ==
    /\ pc = "done" /\ N = 3
    /\ ~Image(0).otsu_ok
    /\ Image(1).otsu_ok /\ ~HasCandidate(Image(1).regions)
    /\ Image(2).otsu_ok /\ HasCandidate(Image(2).regions) /\ Written(2)
    /\ HasRecord(0, Tag1) /\ HasRecord(1, Tag2)

C5_ProximityRule ==
    JustSelected =>
        \A a, b \in 1..Len(Raw) :
            (TopTwo(a, b) /\ Close(a, b)) =>
                /\ region \in {Raw[a], Raw[b]}
                /\ region.centroid[2] >= Raw[a].centroid[2]
                /\ region.centroid[2] >= Raw[b].centroid[2]

C5_Witness ==
    /\ JustSelected /\ Len(Raw) = 3
    /\ \E a, b \in 1..3 :
          /\ TopTwo(a, b) /\ Close(a, b)
          /\ Raw[a].mean_intensity > Raw[b].mean_intensity
          /\ Raw[b].centroid[2] > Raw[a].centroid[2]
          /\ CornerDistSq(Raw[b]) > CornerDistSq(Raw[a])
          /\ region = Raw[b] /\ region # Raw[a]

\* C6: when the two brightest survivors are not close (or there is a single
\* survivor) the selector returns the one of them nearest to the corner
\* (row = image height, column = 0); a survivor that is not among the two
\* brightest is never returned.
C6_FallbackRule ==
    (JustSelected /\ ~HasRecord(Last, Tag2)) =>
        /\ \A a \in 1..Len(Raw) : SurvivorIdx = {a} => region = Raw[a]
        /\ \A a, b \in 1..Len(Raw) :
              (TopTwo(a, b) /\ ~Close(a, b)) =>
                  /\ region \in {Raw[a], Raw[b]}
                  /\ CornerDistSq(region) <= CornerDistSq(Raw[a])
                  /\ CornerDistSq(region) <= CornerDistSq(Raw[b])
        /\ Cardinality({k \in SurvivorIdx : Raw[k].mean_intensity > region.mean_intensity}) < 2

C6_Witness ==
    /\ JustSelected /\ Len(Raw) = 3
    /\ \E a, b, c \in 1..3 :
          /\ TopTwo(a, b) /\ ~Close(a, b) /\ c \in SurvivorIdx \ {a, b}
          /\ CornerDistSq(Raw[c]) < CornerDistSq(Raw[a])
          /\ CornerDistSq(Raw[a]) < CornerDistSq(Raw[b])
          /\ Raw[b].mean_intensity >= Raw[a].mean_intensity
          /\ region = Raw[a]

\* C7: two runs of the whole pipeline on the same images give the same
\* outcome for every image: the same columns and the same failures.
C7_Deterministic ==
    (pc = "done" /\ run >= 2) =>
        /\ vocab_matrix = prev.vocab_matrix
        /\ failed_indexes = prev.failed_indexes

\* C8: a step of either loop on image i leaves every column j # i unchanged
\* and keeps the failure list as a prefix of the new failure list.
C8_Frame ==
    [][(pc \in {"labels", "vocab"} /\ pc' = pc) =>
          /\ DOMAIN vocab_matrix' = DOMAIN vocab_matrix
          /\ \A j \in DOMAIN vocab_matrix : j # i => vocab_matrix'[j] = vocab_matrix[j]
          /\ IsPrefix(failed_indexes, failed_indexes')]_vars

C8_Witness ==
    /\ pc = "vocab" /\ i = 3
    /\ Written(0) /\ Written(2) /\ ~Written(1)
    /\ vocab_matrix[0] # vocab_matrix[2]
    /\ Len(failed_indexes) = 2

\* C9: the column written for a successfully selected image holds the fields
\* of the returned region in the order area, eccentricity, equivalent_diameter,
\* extent, major_axis_length, minor_axis_length, perimeter, max_intensity,
\* mean_intensity, min_intensity.
C9_FieldOrder ==
    (pc = "vocab" /\ i >= 1 /\ ~HasRecord(i - 1, Tag2)) =>
        vocab_matrix[i - 1] =
            <<region.area, region.eccentricity, region.equivalent_diameter, region.extent,
              region.major_axis_length, region.minor_axis_length, region.perimeter,
              region.max_intensity, region.mean_intensity, region.min_intensity>>

C9_Witness ==
    /\ JustSelected /\ ~HasRecord(Last, Tag2) /\ Len(Raw) = 2
    /\ region = Raw[2] /\ Raw[1].mean_intensity # Raw[2].mean_intensity
    /\ Raw[1].area >= 30 /\ Raw[1].eccentricity < 98
    /\ vocab_matrix[Last][5] = 9 /\ vocab_matrix[Last][6] = 7
    /\ vocab_matrix[Last][9] = Raw[2].mean_intensity

\* C10: in the failure list every 'extract_region_label' record precedes every
\* 'find_target_region' record, the indices are strictly increasing within
\* each tag, and an index occurs at most once per tag.
C10_TwoPassOrder ==
    \A a, b \in 1..Len(failed_indexes) :
        a < b =>
            /\ ~(failed_indexes[a][2] = Tag2 /\ failed_indexes[b][2] = Tag1)
            /\ failed_indexes[a][2] = failed_indexes[b][2] => failed_indexes[a][1] < failed_indexes[b][1]

C10_Witness ==
    /\ pc = "done" /\ Len(failed_indexes) = 4
    /\ failed_indexes[1] = <<0, Tag1>> /\ failed_indexes[2] = <<2, Tag1>>
    /\ failed_indexes[3] = <<0, Tag2>> /\ failed_indexes[4] = <<1, Tag2>>

====
